---- MODULE Spec2Model ----
(***************************************************************************)
(* PlutoField (src/src/field.rs): the prime field of order 101 held in a  *)
(* u32.  The operations are pure functions; they are written here as       *)
(* operators that compute what the Rust code computes, and are exercised   *)
(* by small state machines:                                                *)
(*   Spec        the public operations applied, in any order, to elements  *)
(*               built by the constructors;                                *)
(*   SpecOps     one operation applied to operands drawn from [0, p);      *)
(*   SpecAxioms  the two sides of each field axiom, on operands in [0, p); *)
(*   SpecInv     try_inverse, pass by pass, and its callers inverse, div   *)
(*               (SpecInvFair: the same, the running call being fair);     *)
(*   SpecExp     exp_u64_generic, pass by pass;                            *)
(*   SpecCtor    the from_canonical_* constructors on raw integers.        *)
(*                                                                         *)
(* u32 words.  TLC integers are 32-bit signed, so a word w >= 2^31 cannot  *)
(* be written down.  A non-negative integer denotes itself; a negative     *)
(* integer n denotes the word 2^32 + n (the result of a wrapped            *)
(* subtraction).  Every unwrapped intermediate of a checked `+` or `*` is  *)
(* recorded in `wide`, so that "no overflow" is a statement about `wide`.  *)
(***************************************************************************)
EXTENDS Integers, Sequences, FiniteSets, TLC

VARIABLES
  reg,      \* Spec: the elements in scope, reg[i] is the `value` field
  exact,    \* Spec: ghost, the residue in [0, p) each element stands for
  op,       \* the operation applied last
  wide,     \* largest unwrapped intermediate of the last operation
  panicked, \* an `expect`/assertion failed: the thread has unwound
  a, b, c,  \* the operands of the call under study
  out,      \* <<>> until the call returns, then the value(s) it returned
  pc,       \* the position of the call under study
  locals,   \* the local variables of the loop being run
  ret,      \* SpecInv: what try_inverse returned to its caller
  debug     \* SpecCtor: the build has debug assertions

vars == <<reg, exact, op, wide, panicked, a, b, c, out, pc, locals, ret, debug>>

\* ---------------------------------------------------------------- constants

PLUTO_FIELD_PRIME == 101
ORDER_U32 == PLUTO_FIELD_PRIME

\* constructors and try_inverse are fed raw integers 0..MaxRaw
MaxRaw == 205

\* exp_u64_generic is fed exponents 0..MaxPower
MaxPower == 110

Regs == 1..2
Canonical == 0..(PLUTO_FIELD_PRIME - 1)
RawInputs == 0..MaxRaw

\* ---------------------------------------------------------------- u32 words

\* x is the exact value of an unsigned 32-bit word
fits_u32(x) == x >= 0 /\ (x \div 65536) < 65536

\* the word a checked `+` or `*` leaves in a release build (x mod 2^32)
wrapping(x) == IF fits_u32(x) \/ x < 0 THEN x
               ELSE x - ((x \div 65536) \div 65536) * 65536 * 65536

\* x < y as unsigned words
ult(x, y) == IF (x < 0) = (y < 0) THEN x < y ELSE y < 0

\* u32::overflowing_sub: (x - y mod 2^32, x < y)
overflowing_sub(x, y) == [diff |-> x - y, over |-> ult(x, y)]

\* u32::wrapping_add
wrapping_add(x, y) == wrapping(x + y)

Max(x, y) == IF x >= y THEN x ELSE y

\* Option<Self>
None == <<>>
Some(v) == <<v>>

\* ---------------------------------------------------------------- PlutoField

new(value) == value

\* is_zero without the leniency for the un-reduced zero
is_zero_only_0(self) == self = 0

is_zero(self) == self = 0 \/ self = ORDER_U32

zero == new(0)
one == new(1)
two == new(2)
neg_one == new(ORDER_U32 - 1)
generator == new(2)

from_canonical_u8(n) == new(n)
from_canonical_u16(n) == new(n)
from_canonical_u32(n) == new(n)

\* the condition of the debug_assert! of from_canonical_u64 and _usize
debug_assert_canonical(n) == n < PLUTO_FIELD_PRIME

\* n as u32 followed by from_canonical_u32
from_canonical_u64(n) == from_canonical_u32(wrapping(n))
from_canonical_usize(n) == from_canonical_u32(wrapping(n))
from_wrapped_u32(n) == n % PLUTO_FIELD_PRIME
from_wrapped_u64(n) == n % PLUTO_FIELD_PRIME

\* self.value * rhs.value, before the reduction
mul_product(self, rhs) == self * rhs

\* mul reducing by a mistyped literal
mul_typo(self, rhs) == wrapping(mul_product(self, rhs)) % 100

mul(self, rhs) == wrapping(mul_product(self, rhs)) % 101

\* neg taking the complement to p + 1
neg_plus_one(self) == new(ORDER_U32 + 1 - self)

neg(self) == new(ORDER_U32 - self)

\* self.value + rhs.value, before the correction
add_sum(self, rhs) == self + rhs

\* add correcting only a sum above p
add_strict(self, rhs) ==
  LET sum == wrapping(add_sum(self, rhs))
  IN  IF sum > PLUTO_FIELD_PRIME THEN sum - PLUTO_FIELD_PRIME ELSE sum

add(self, rhs) ==
  LET sum == wrapping(add_sum(self, rhs))
      r   == overflowing_sub(sum, PLUTO_FIELD_PRIME)
  IN  IF ~r.over THEN r.diff ELSE sum

\* sub without the correction of an underflow
sub_no_corr(self, rhs) == new(overflowing_sub(self, rhs).diff)

sub(self, rhs) ==
  LET r    == overflowing_sub(self, rhs)
      corr == IF r.over THEN PLUTO_FIELD_PRIME ELSE 0
  IN  new(wrapping_add(r.diff, corr))

\* p3_field::halve_u32::<P>: input / 2 for an even input, (input + P) / 2
\* for an odd one
halve_u32(input) ==
  IF input % 2 = 0 THEN input \div 2
  ELSE (input + PLUTO_FIELD_PRIME) \div 2

halve(self) == new(halve_u32(self))

\* one pass of the `while power > 0` loop of try_inverse
try_inverse_body(l) ==
  LET p1 == IF l.power % 2 = 1 THEN l.result * l.base ELSE 0
      r1 == IF l.power % 2 = 1 THEN wrapping(p1) % PLUTO_FIELD_PRIME
                               ELSE l.result
      p2 == l.base * l.base
  IN  [result |-> r1,
       base   |-> wrapping(p2) % PLUTO_FIELD_PRIME,
       power  |-> l.power \div 2,
       wide   |-> Max(l.wide, Max(p1, p2))]

RECURSIVE try_inverse_loop(_)
try_inverse_loop(l) ==
  IF l.power > 0 THEN try_inverse_loop(try_inverse_body(l)) ELSE l

\* try_inverse with the exponent p - 1
try_inverse_locals_p1(self) ==
  [result |-> 1, base |-> self, power |-> PLUTO_FIELD_PRIME - 1, wide |-> 0]

\* the locals of try_inverse on entry to the loop
try_inverse_locals(self) ==
  [result |-> 1, base |-> self, power |-> PLUTO_FIELD_PRIME - 2, wide |-> 0]

try_inverse(self) ==
  IF is_zero(self) THEN None
  ELSE Some(try_inverse_loop(try_inverse_locals(self)).result)

try_inverse_wide(self) ==
  IF is_zero(self) THEN 0
  ELSE try_inverse_loop(try_inverse_locals(self)).wide

\* ---------------------------------------------------------------- Spec
\* the residue arithmetic of Z/101, the reference the ghost `exact` follows
FAdd(x, y) == (x + y) % PLUTO_FIELD_PRIME
FSub(x, y) == (x - y) % PLUTO_FIELD_PRIME
FMul(x, y) == (x * y) % PLUTO_FIELD_PRIME
FNeg(x) == (0 - x) % PLUTO_FIELD_PRIME
FHalfTable == [x \in Canonical |->
                 CHOOSE z \in Canonical : (2 * z) % PLUTO_FIELD_PRIME = x]
FInvTable == [x \in 1..(PLUTO_FIELD_PRIME - 1) |->
                CHOOSE z \in Canonical : (z * x) % PLUTO_FIELD_PRIME = 1]
FHalf(x) == FHalfTable[x]
FInv(x) == FInvTable[x]
\* x^k mod p by k multiplications
RECURSIVE FPowLin(_, _)
FPowLin(x, k) ==
  IF k = 0 THEN 1 ELSE (x * FPowLin(x, k - 1)) % PLUTO_FIELD_PRIME
\* x^k = (x^10)^(k div 10) * x^(k mod 10), which keeps the recursion shallow
FPow(x, k) ==
  (FPowLin(FPowLin(x, 10), k \div 10) * FPowLin(x, k % 10)) % PLUTO_FIELD_PRIME

\* the variables a specification does not use keep these values
IdleCall == a = 0 /\ b = 0 /\ c = 0 /\ out = <<>> /\ ret = <<>>
IdleLoop == pc = "idle" /\ locals = <<>>
IdleRegs == reg = <<>> /\ exact = <<>>
CallVars == <<a, b, c, out, pc, locals, ret, debug>>

\* the elements the constructors build from raw integers within contract
Constructed ==
  {from_wrapped_u32(n) : n \in RawInputs}
    \cup {from_wrapped_u64(n) : n \in RawInputs}
    \cup {from_canonical_u32(n) : n \in Canonical}
    \cup {zero, one, two, neg_one, generator}

\* try_inverse on each value an element of Spec can hold, computed once
InverseOf == [x \in 0..ORDER_U32 |-> try_inverse(x)]

\* bind the result of an operation to the name dst
Bind(dst, value, residue, name) ==
  /\ ~panicked
  /\ reg' = [reg EXCEPT ![dst] = value]
  /\ exact' = [exact EXCEPT ![dst] = residue]
  /\ op' = name
  /\ UNCHANGED <<wide, panicked, CallVars>>

\* the call unwinds: nothing is bound
Panic(name) ==
  /\ ~panicked
  /\ panicked' = TRUE
  /\ op' = name
  /\ UNCHANGED <<reg, exact, wide, CallVars>>

Init ==
  /\ reg \in [Regs -> Constructed]
  /\ exact = reg
  /\ op = "new"
  /\ wide = 0
  /\ panicked = FALSE
  /\ debug = FALSE
  /\ IdleCall /\ IdleLoop

Add ==
  \E i \in Regs, j \in Regs, dst \in Regs :
    Bind(dst, add(reg[i], reg[j]), FAdd(exact[i], exact[j]), "add")

Sub ==
  \E i \in Regs, j \in Regs, dst \in Regs :
    Bind(dst, sub(reg[i], reg[j]), FSub(exact[i], exact[j]), "sub")

Mul ==
  \E i \in Regs, j \in Regs, dst \in Regs :
    Bind(dst, mul(reg[i], reg[j]), FMul(exact[i], exact[j]), "mul")

Neg ==
  \E i \in Regs, dst \in Regs :
    Bind(dst, neg(reg[i]), FNeg(exact[i]), "neg")

Halve ==
  \E i \in Regs, dst \in Regs :
    Bind(dst, halve(reg[i]), FHalf(exact[i]), "halve")

\* `if let Some(x) = a.try_inverse()`: None binds nothing
TryInverse ==
  \E i \in Regs, dst \in Regs :
    LET r == InverseOf[reg[i]]
    IN  IF r = None
        THEN /\ ~panicked
             /\ op' = "try_inverse_none"
             /\ UNCHANGED <<reg, exact, wide, panicked, CallVars>>
        ELSE Bind(dst, r[1], FInv(exact[i]), "try_inverse")

\* Field::inverse: self.try_inverse().expect("Tried to invert zero")
Inverse ==
  \E i \in Regs, dst \in Regs :
    LET r == InverseOf[reg[i]]
    IN  IF r = None
        THEN Panic("inverse")
        ELSE Bind(dst, r[1], FInv(exact[i]), "inverse")

\* self * rhs.inverse()
Div ==
  \E i \in Regs, j \in Regs, dst \in Regs :
    LET r == InverseOf[reg[j]]
    IN  IF r = None
        THEN Panic("div")
        ELSE Bind(dst, mul(reg[i], r[1]), FMul(exact[i], FInv(exact[j])), "div")

AddAssign ==
  \E i \in Regs, j \in Regs :
    Bind(i, add(reg[i], reg[j]), FAdd(exact[i], exact[j]), "add_assign")

SubAssign ==
  \E i \in Regs, j \in Regs :
    Bind(i, sub(reg[i], reg[j]), FSub(exact[i], exact[j]), "sub_assign")

MulAssign ==
  \E i \in Regs, j \in Regs :
    Bind(i, mul(reg[i], reg[j]), FMul(exact[i], exact[j]), "mul_assign")

Next ==
  \/ Add \/ Sub \/ Mul \/ Neg \/ Halve
  \/ TryInverse \/ Inverse \/ Div
  \/ AddAssign \/ SubAssign \/ MulAssign

Spec == Init /\ [][Next]_vars

\* ---------------------------------------------------------------- SpecOps
\* one operation on operands a, b drawn from [0, p)

Return(name, value, w) ==
  /\ pc = "call"
  /\ pc' = "done"
  /\ op' = name
  /\ out' = value
  /\ wide' = w
  /\ UNCHANGED <<reg, exact, panicked, a, b, c, locals, ret, debug>>

InitOps ==
  /\ a \in Canonical /\ b \in Canonical /\ c = 0
  /\ pc = "call" /\ op = "none" /\ out = <<>> /\ wide = 0
  /\ locals = <<>> /\ ret = <<>>
  /\ panicked = FALSE /\ debug = FALSE
  /\ IdleRegs

OpAdd == Return("add", <<add(a, b)>>, add_sum(a, b))
OpSub == Return("sub", <<sub(a, b)>>, 0)
OpMul == Return("mul", <<mul(a, b)>>, mul_product(a, b))
OpNeg == Return("neg", <<neg(a)>>, 0)
\* tests::negation: a + (-a)
OpNegation == Return("negation", <<add(a, neg(a))>>, add_sum(a, neg(a)))

NextOps == OpAdd \/ OpSub \/ OpMul \/ OpNeg \/ OpNegation

SpecOps == InitOps /\ [][NextOps]_vars

\* ---------------------------------------------------------------- SpecAxioms
\* both sides of the axioms of tests::associativity, tests::distributivity
\* and of commutativity, on operands a, b, c drawn from [0, p)

InitAxioms ==
  /\ a \in Canonical /\ b \in Canonical /\ c \in Canonical
  /\ pc = "call" /\ op = "none" /\ out = <<>> /\ wide = 0
  /\ locals = <<>> /\ ret = <<>>
  /\ panicked = FALSE /\ debug = FALSE
  /\ IdleRegs

Associativity ==
  Return("associativity",
         <<add(add(a, b), c), add(a, add(b, c)),
           mul(mul(a, b), c), mul(a, mul(b, c))>>, 0)

Commutativity ==
  Return("commutativity", <<add(a, b), add(b, a), mul(a, b), mul(b, a)>>, 0)

Distributivity ==
  Return("distributivity",
         <<mul(a, add(b, c)), add(mul(a, b), mul(a, c))>>, 0)

NextAxioms == Associativity \/ Commutativity \/ Distributivity

SpecAxioms == InitAxioms /\ [][NextAxioms]_vars

\* ---------------------------------------------------------------- SpecInv
\* try_inverse on b, one pass of its loop per step, called directly
\* (op = "try_inverse"), through Field::inverse (op = "inverse") or through
\* a / b (op = "div")

Numerators == {zero, one, two, neg_one, generator}

InitInv ==
  /\ op \in {"try_inverse", "inverse", "div"}
  /\ b \in RawInputs
  /\ a \in (IF op = "div" THEN Numerators ELSE {0})
  /\ c = 0
  /\ pc = "call" /\ out = <<>> /\ wide = 0
  /\ locals = <<>> /\ ret = <<>>
  /\ panicked = FALSE /\ debug = FALSE
  /\ IdleRegs

TryInverseEnter ==
  /\ pc = "call"
  /\ IF is_zero(b)
     THEN /\ ret' = None
          /\ pc' = "returned"
          /\ UNCHANGED locals
     ELSE /\ locals' = try_inverse_locals(b)
          /\ pc' = "loop"
          /\ UNCHANGED ret
  /\ UNCHANGED <<reg, exact, op, wide, panicked, a, b, c, out, debug>>

TryInverseLoop ==
  /\ pc = "loop"
  /\ locals.power > 0
  /\ locals' = try_inverse_body(locals)
  /\ UNCHANGED <<reg, exact, op, wide, panicked, a, b, c, out, pc, ret, debug>>

TryInverseReturn ==
  /\ pc = "loop"
  /\ ~(locals.power > 0)
  /\ ret' = Some(locals.result)
  /\ wide' = locals.wide
  /\ pc' = "returned"
  /\ UNCHANGED <<reg, exact, op, panicked, a, b, c, out, locals, debug>>

\* Field::inverse: self.try_inverse().expect("Tried to invert zero")
Expect ==
  /\ pc = "returned"
  /\ op \in {"inverse", "div"}
  /\ IF ret = None
     THEN /\ panicked' = TRUE
          /\ pc' = "unwound"
          /\ UNCHANGED out
     ELSE /\ out' = <<ret[1]>>
          /\ pc' = (IF op = "div" THEN "inverted" ELSE "done")
          /\ UNCHANGED panicked
  /\ UNCHANGED <<reg, exact, op, wide, a, b, c, locals, ret, debug>>

\* Div::div: self * rhs.inverse()
DivMul ==
  /\ pc = "inverted"
  /\ op = "div"
  /\ out' = <<mul(a, out[1])>>
  /\ pc' = "done"
  /\ UNCHANGED <<reg, exact, op, wide, panicked, a, b, c, locals, ret, debug>>

NextInv ==
  \/ TryInverseEnter \/ TryInverseLoop \/ TryInverseReturn
  \/ Expect \/ DivMul

SpecInv == InitInv /\ [][NextInv]_vars

\* a call that has started keeps running
SpecInvFair == SpecInv /\ WF_vars(NextInv)

\* ---------------------------------------------------------------- SpecExp
\* exp_u64_generic(a, b), one pass of exp_u64_by_squaring per step

RECURSIVE bits_u64(_)
bits_u64(n) == IF n = 0 THEN 0 ELSE 1 + bits_u64(n \div 2)

\* (power >> j) & 1
bit(power, j) == (power \div (2 ^ j)) % 2

square(self) == mul(self, self)

InitExp ==
  /\ a \in Canonical
  /\ b \in 0..MaxPower
  /\ c = 0
  /\ pc = "call" /\ op = "exp_u64_generic" /\ out = <<>> /\ wide = 0
  /\ locals = <<>> /\ ret = <<>>
  /\ panicked = FALSE /\ debug = FALSE
  /\ IdleRegs

\* exp_u64_generic hands val and power to exp_u64_by_squaring
ExpEnter ==
  /\ pc = "call"
  /\ locals' = [current |-> a, product |-> one, j |-> 0]
  /\ pc' = "loop"
  /\ UNCHANGED <<reg, exact, op, wide, panicked, a, b, c, out, ret, debug>>

ExpLoop ==
  /\ pc = "loop"
  /\ locals.j < bits_u64(b)
  /\ locals' = [current |-> square(locals.current),
                product |-> IF bit(b, locals.j) # 0
                            THEN mul(locals.product, locals.current)
                            ELSE locals.product,
                j       |-> locals.j + 1]
  /\ wide' = Max(wide, Max(mul_product(locals.current, locals.current),
                           mul_product(locals.product, locals.current)))
  /\ UNCHANGED <<reg, exact, op, panicked, a, b, c, out, pc, ret, debug>>

ExpReturn ==
  /\ pc = "loop"
  /\ ~(locals.j < bits_u64(b))
  /\ out' = <<locals.product>>
  /\ pc' = "done"
  /\ UNCHANGED <<reg, exact, op, wide, panicked, a, b, c, locals, ret, debug>>

NextExp == ExpEnter \/ ExpLoop \/ ExpReturn

SpecExp == InitExp /\ [][NextExp]_vars

\* ---------------------------------------------------------------- SpecCtor
\* one from_canonical_* constructor on the raw integer a (every a in
\* RawInputs fits the narrowest argument type, u8, as long as MaxRaw <= 255)

InitCtor ==
  /\ a \in RawInputs
  /\ debug \in BOOLEAN
  /\ b = 0 /\ c = 0
  /\ pc = "call" /\ op = "none" /\ out = <<>> /\ wide = 0
  /\ locals = <<>> /\ ret = <<>>
  /\ panicked = FALSE
  /\ IdleRegs

\* debug_assert!(cond): unwinds when the build has debug assertions
AssertFails(name) ==
  /\ pc = "call"
  /\ pc' = "unwound"
  /\ op' = name
  /\ panicked' = TRUE
  /\ UNCHANGED <<reg, exact, wide, a, b, c, out, locals, ret, debug>>

FromCanonicalU8 == Return("from_canonical_u8", <<from_canonical_u8(a)>>, 0)
FromCanonicalU16 == Return("from_canonical_u16", <<from_canonical_u16(a)>>, 0)
FromCanonicalU32 == Return("from_canonical_u32", <<from_canonical_u32(a)>>, 0)

FromCanonicalU64 ==
  IF debug /\ ~debug_assert_canonical(a)
  THEN AssertFails("from_canonical_u64")
  ELSE Return("from_canonical_u64", <<from_canonical_u64(a)>>, 0)

FromCanonicalUsize ==
  IF debug /\ ~debug_assert_canonical(a)
  THEN AssertFails("from_canonical_usize")
  ELSE Return("from_canonical_usize", <<from_canonical_usize(a)>>, 0)

NextCtor ==
  \/ FromCanonicalU8 \/ FromCanonicalU16 \/ FromCanonicalU32
  \/ FromCanonicalU64 \/ FromCanonicalUsize

SpecCtor == InitCtor /\ [][NextCtor]_vars

\* ---------------------------------------------------------------- claims

\* C1 (Spec): after any sequence of the public operations on constructed
\* elements, every element has 0 <= value < p.
C1_CanonicalRange == \A i \in Regs : reg[i] \in Canonical

\* C2 (SpecInvFair): for every b in [1, p) try_inverse(b) returns
\* Some(b^(p-2) mod p), whose product with b is one, and the loop terminates.
C2_InverseCorrect ==
  /\ [](pc = "returned" /\ b \in 1..(PLUTO_FIELD_PRIME - 1)
          => /\ ret = Some(FPow(b, PLUTO_FIELD_PRIME - 2))
             /\ mul(b, ret[1]) = one
             /\ ret = try_inverse(b))
  /\ <>(pc = "returned")

C2_Witness ==
  pc = "returned" /\ op = "try_inverse" /\ b = 10 /\ ret = Some(91)

\* C3 (SpecOps): for a, b in [0, p), add, sub and mul return (a + b) mod p,
\* (a - b) mod p and (a * b) mod p, each in [0, p), and neither the sum nor
\* the product leaves the u32 range, nor does sub leave a wrapped word.
C3_ClosureReduction ==
  /\ op = "add" => /\ out = <<(a + b) % PLUTO_FIELD_PRIME>>
                   /\ out[1] \in Canonical
                   /\ wide <= 2 * (PLUTO_FIELD_PRIME - 1) /\ fits_u32(wide)
  /\ op = "sub" => /\ out = <<(a - b) % PLUTO_FIELD_PRIME>>
                   /\ out[1] \in Canonical
  /\ op = "mul" => /\ out = <<(a * b) % PLUTO_FIELD_PRIME>>
                   /\ out[1] \in Canonical
                   /\ wide <= (PLUTO_FIELD_PRIME - 1) * (PLUTO_FIELD_PRIME - 1)
                   /\ fits_u32(wide)

C3_Witness == op = "sub" /\ a = 10 /\ b = 20 /\ out = <<91>>

\* C4 (SpecOps): neg(a) is p - a for a in [1, p), and neg(0) is 0.
C4_NegValue ==
  op = "neg" => out = <<IF a = 0 THEN 0 ELSE PLUTO_FIELD_PRIME - a>>

\* C5 (SpecInv): try_inverse(b) returns None exactly when b is 0 or p (2p
\* and every other raw value get Some), and inverse(b) and a / b then unwind
\* without returning a value.
C5_ZeroHasNoInverse ==
  /\ pc \in {"returned", "unwound", "inverted", "done"}
       => ((ret = None) <=> (b = 0 \/ b = PLUTO_FIELD_PRIME))
  /\ panicked <=> pc = "unwound"
  /\ pc = "unwound" => out = <<>>
  /\ (b = 0 \/ b = PLUTO_FIELD_PRIME) => pc \notin {"inverted", "done"}
  /\ (pc \in {"inverted", "done"}) => op \in {"inverse", "div"} /\ ret # None

C5_Witness ==
  pc = "unwound" /\ op = "div" /\ b = PLUTO_FIELD_PRIME /\ panicked

\* C6 (SpecOps): a + (-a) is the element 0 for every a in [0, p), a = 0
\* included.
C6_AdditiveInverse == op = "negation" => out = <<zero>>

C6_Witness ==
  op = "negation" /\ a = 0 /\ out = <<0>> /\ neg(a) = PLUTO_FIELD_PRIME

\* C7 (SpecAxioms): on a, b, c in [0, p), addition and multiplication are
\* associative and commutative and multiplication distributes over
\* addition, the two sides holding the same value.
C7_FieldAxioms ==
  /\ op = "associativity" => out[1] = out[2] /\ out[3] = out[4]
  /\ op = "commutativity" => out[1] = out[2] /\ out[3] = out[4]
  /\ op = "distributivity" => out[1] = out[2]

C7_Witness ==
  op = "distributivity" /\ a = 5 /\ b = 6 /\ c = 7 /\ out = <<65, 65>>

\* C8 (SpecCtor): in a debug build every from_canonical_* constructor given
\* a raw value >= p fails its assertion instead of returning an element.
C8_RangeViolationReported ==
  (pc # "call" /\ debug /\ a >= PLUTO_FIELD_PRIME) => panicked

\* C9 (SpecExp): exp_u64_generic(a, b) is a^b mod p for a in [0, p); so it
\* is 1 for b = 0, 0 for a = 0 and b > 0, and 8 for a = 2, b = 3.
C9_ExpCorrect ==
  pc = "done" =>
    /\ out = <<FPow(a, b)>>
    /\ b = 0 => out = <<1>>
    /\ (a = 0 /\ b > 0) => out = <<0>>
    /\ (a = 2 /\ b = 3) => out = <<8>>

C9_Witness == pc = "done" /\ a = 2 /\ b = 3 /\ out = <<8>>

\* C10 (Spec): every element stays in [0, p] and congruent mod p to the
\* exact field result; no sum, product or try_inverse intermediate of an
\* operation on the elements in scope leaves the u32 range; an element
\* with value p is zero to is_zero, add, mul and try_inverse.
C10_UnreducedZeroContained ==
  /\ \A i \in Regs :
       /\ reg[i] \in 0..PLUTO_FIELD_PRIME
       /\ reg[i] % PLUTO_FIELD_PRIME = exact[i]
       /\ try_inverse_wide(reg[i]) <= PLUTO_FIELD_PRIME * PLUTO_FIELD_PRIME
       /\ fits_u32(try_inverse_wide(reg[i]))
  /\ \A i \in Regs, j \in Regs :
       /\ fits_u32(add_sum(reg[i], reg[j]))
       /\ fits_u32(mul_product(reg[i], reg[j]))
       /\ mul_product(reg[i], reg[j]) <= PLUTO_FIELD_PRIME * PLUTO_FIELD_PRIME
       /\ reg[i] = PLUTO_FIELD_PRIME =>
            /\ is_zero(reg[i])
            /\ add(reg[i], reg[j]) = reg[j]
            /\ mul(reg[i], reg[j]) = 0
            /\ try_inverse(reg[i]) = None

C10_Witness ==
  op = "add" /\ reg[1] = PLUTO_FIELD_PRIME /\ reg[2] = PLUTO_FIELD_PRIME

====
